---- MODULE Spec2Model ----
(***************************************************************************)
(* Bedtime Story Weaver (src/app.py): a Streamlit page script.  Every user *)
(* interaction re-executes the whole script top to bottom; the state that  *)
(* survives a run is st.session_state, st.query_params and the widgets'    *)
(* values.  Text is modelled as a sequence of one-character strings, bytes *)
(* as a sequence of integers 0..255.                                       *)
(***************************************************************************)
EXTENDS Integers, Sequences, FiniteSets, TLC

VARIABLES
    widgets,        \* values of the sidebar widgets (lines 153, 174-177)
    session_state,  \* st.session_state: voice_text, story_text
    query_params,   \* st.query_params: voice_input
    event,          \* what triggered the last step
    response,       \* the answer of the remote service to the last run's request
    http_log,       \* the requests.post calls of the last run, in order
    errors,         \* st.warning / st.error messages of the last run
    fault,          \* exception that escaped to the page script in the last run
    audio,          \* bytes handed to st.audio in the last run
    speak_shown,    \* the last run rendered the "Tell Me the Story" button
    last_generated  \* history: latest non-empty text a generation call returned

vars == <<widgets, session_state, query_params, event, response, http_log,
          errors, fault, audio, speak_shown, last_generated>>

\* ------------------------------------------------------------------ bounds
MaxStrLen == 1

\* ------------------------------------------------------------------- text
Strs(A, n) == UNION {[1..k -> A] : k \in 0..n}

NL == "\n"

Whitespace == {" ", NL}

\* st.text_input is a single-line field, st.text_area takes newlines too
CharactersInputs == Strs({"a", " "}, MaxStrLen)

TipsInputs == Strs({"a", " ", NL}, MaxStrLen)

ApiKeys == {<<>>, <<"k">>}

Transcripts == {<<>>, <<"t">>}

Stories == {<<>>, <<"x">>, <<"y">>}

Genres == {"Fantasy", "Nature Adventure", "Fairy Tale", "Animal Story"}

AgeGroups == {"Toddlers (1-3 years)", "Children (4-8 years)"}

TEXT_GENERATION_MODEL == "gemini-2.5-flash-preview-05-20"

TTS_MODEL == "gemini-2.5-flash-preview-tts"

\* a key a dict does not hold
Absent == <<"<absent>">>

\* ------------------------------------------------------------------- JSON
JNull == [t |-> "null"]

JStr(s) == [t |-> "str", s |-> s]

JList(l) == [t |-> "list", l |-> l]

JDict(keys, d) == [t |-> "dict", keys |-> keys, d |-> d]

Got(v) == [ok |-> TRUE, v |-> v, exc |-> "none"]

Raised(e) == [ok |-> FALSE, v |-> JNull, exc |-> e]

\* Python's v[step]; step "[0]" is the index 0, any other step a string key
Subscript(v, step) ==
    CASE v.t = "dict" ->
            IF step # "[0]" /\ step \in v.keys THEN Got(v.d[step]) ELSE Raised("KeyError")
      [] v.t = "list" ->
            IF step # "[0]" THEN Raised("TypeError")
            ELSE IF Len(v.l) > 0 THEN Got(v.l[1]) ELSE Raised("IndexError")
      [] v.t = "str" ->
            IF step # "[0]" THEN Raised("TypeError")
            ELSE IF Len(v.s) > 0 THEN Got(JStr(<<v.s[1]>>)) ELSE Raised("IndexError")
      [] OTHER -> Raised("TypeError")

\* v[p1][p2]...[pn], left to right, stopping at the first exception
RECURSIVE Path(_, _)
Path(v, steps) ==
    IF steps = <<>> THEN Got(v)
    ELSE LET r == Subscript(v, Head(steps))
         IN IF r.ok THEN Path(r.v, Tail(steps)) ELSE r

\* ---------------------------------------------------------- service answers
NoResponse == [net |-> "none", status |-> 0, body |-> JNull]

NetworkError == [net |-> "error", status |-> 0, body |-> JNull]

Http(status, body) == [net |-> "ok", status |-> status, body |-> body]

Candidates(l) == JDict({"candidates"}, [candidates |-> JList(l)])

Candidate(parts) ==
    JDict({"content"}, [content |-> JDict({"parts"}, [parts |-> JList(parts)])])

TextPart(s) == JDict({"text"}, [text |-> JStr(s)])

\* a candidate stopped by the provider carries no content
BlockedCandidate == JDict({"finishReason"}, [finishReason |-> JStr(<<"S">>)])

StoryBody(s) == Candidates(<<Candidate(<<TextPart(s)>>)>>)

EmptyDict == JDict({}, <<>>)

\* answers are kept in tuples: their bodies differ in shape
MalformedBodies ==
    << EmptyDict, Candidates(<<>>), Candidates(<<BlockedCandidate>>) >>

GenerationResponses ==
    <<NetworkError, Http(500, JNull)>>
        \o [i \in 1..Len(MalformedBodies) |-> Http(200, MalformedBodies[i])]
        \o <<Http(200, StoryBody(<<>>)), Http(200, StoryBody(<<"x">>)),
             Http(200, StoryBody(<<"y">>))>>

InlineData(keys, data, mime) ==
    JDict({"inlineData"},
          [inlineData |-> JDict(keys, [data |-> JStr(data), mimeType |-> JStr(mime)])])

AudioBody(keys, data, mime) == Candidates(<<Candidate(<<InlineData(keys, data, mime)>>)>>)

MimeL16 == <<"a","u","d","i","o","/","L","1","6">>

RateEq == <<"r","a","t","e","=">>

Mime(rate) == MimeL16 \o <<";">> \o RateEq \o rate

Rate24000 == <<"2","4","0","0","0">>

B64Samples == << <<"A","Q","I","D">>, <<"A","Q","=","=">>, <<"A","Q","I">> >>

MimeSamples == << MimeL16, Mime(<<"x">>), Mime(<<"0">>) >>

SynthesisResponses ==
    <<NetworkError, Http(500, JNull), Http(200, EmptyDict)>>
        \o [i \in 1..Len(B64Samples) |->
               Http(200, AudioBody({"data", "mimeType"}, B64Samples[i], Mime(Rate24000)))]
        \o [i \in 1..Len(MimeSamples) |->
               Http(200, AudioBody({"data", "mimeType"}, B64Samples[1], MimeSamples[i]))]

\* ------------------------------------------------------- base64.b64decode
B64Alphabet ==
    << "A","B","C","D","E","F","G","H","I","J","K","L","M","N","O","P",
       "Q","R","S","T","U","V","W","X","Y","Z","a","b","c","d","e","f",
       "g","h","i","j","k","l","m","n","o","p","q","r","s","t","u","v",
       "w","x","y","z","0","1","2","3","4","5","6","7","8","9","+","/" >>

IsB64(c) == \E i \in DOMAIN B64Alphabet : B64Alphabet[i] = c

B64Value(c) == (CHOOSE i \in DOMAIN B64Alphabet : B64Alphabet[i] = c) - 1

\* binascii.a2b_base64 without strict mode, as base64.b64decode(s) calls it:
\* characters outside the alphabet are skipped, a pad that completes a quad
\* ends the input, a quad left open at the end is an error.
RECURSIVE A2B(_, _, _, _, _, _)
A2B(s, i, quad_pos, leftchar, pads, out) ==
    IF i > Len(s)
    THEN IF quad_pos = 0 THEN [ok |-> TRUE, bytes |-> out]
         ELSE [ok |-> FALSE, bytes |-> <<>>]
    ELSE LET c == s[i] IN
         IF c = "="
         THEN IF quad_pos >= 2 /\ quad_pos + pads + 1 >= 4
              THEN [ok |-> TRUE, bytes |-> out]
              ELSE A2B(s, i + 1, quad_pos, leftchar,
                       IF quad_pos >= 2 THEN pads + 1 ELSE pads, out)
         ELSE IF ~IsB64(c)
         THEN A2B(s, i + 1, quad_pos, leftchar, pads, out)
         ELSE LET v == B64Value(c) IN
              CASE quad_pos = 0 -> A2B(s, i + 1, 1, v, 0, out)
                [] quad_pos = 1 ->
                     A2B(s, i + 1, 2, v % 16, 0,
                         Append(out, (leftchar * 4 + v \div 16) % 256))
                [] quad_pos = 2 ->
                     A2B(s, i + 1, 3, v % 4, 0,
                         Append(out, (leftchar * 16 + v \div 4) % 256))
                [] OTHER ->
                     A2B(s, i + 1, 0, 0, 0, Append(out, (leftchar * 64 + v) % 256))

b64decode(s) == A2B(s, 1, 0, 0, 0, <<>>)

\* ------------------------------------------------- str.split(sep)[1], int()
\* first index >= from where sep occurs in s, 0 when it does not
Find(s, sep, from) ==
    LET hits == {i \in from..(Len(s) - Len(sep) + 1) :
                    SubSeq(s, i, i + Len(sep) - 1) = sep}
    IN IF hits = {} THEN 0 ELSE CHOOSE i \in hits : \A j \in hits : i <= j

\* s.split(sep)[1]: the text between the first and the second sep
SplitSecond(s, sep) ==
    LET a == Find(s, sep, 1) IN
    IF a = 0 THEN [ok |-> FALSE, s |-> <<>>]
    ELSE LET rest == SubSeq(s, a + Len(sep), Len(s))
             b == Find(rest, sep, 1)
         IN [ok |-> TRUE, s |-> IF b = 0 THEN rest ELSE SubSeq(rest, 1, b - 1)]

Digits == <<"0","1","2","3","4","5","6","7","8","9">>

IsDigit(c) == \E i \in DOMAIN Digits : Digits[i] = c

DigitValue(c) == (CHOOSE i \in DOMAIN Digits : Digits[i] = c) - 1

RECURSIVE Strip(_)
Strip(s) ==
    IF s = <<>> THEN s
    ELSE IF Head(s) \in Whitespace THEN Strip(Tail(s))
    ELSE IF s[Len(s)] \in Whitespace THEN Strip(SubSeq(s, 1, Len(s) - 1))
    ELSE s

RECURSIVE DigitsValue(_, _)
DigitsValue(s, acc) ==
    IF s = <<>> THEN acc ELSE DigitsValue(Tail(s), acc * 10 + DigitValue(Head(s)))

\* int(s) on text of spaces, a sign and decimal digits
ParseInt(s) ==
    LET t == Strip(s)
        signed == t # <<>> /\ Head(t) \in {"+", "-"}
        ds == IF signed THEN Tail(t) ELSE t
    IN IF ds = <<>> \/ \E i \in DOMAIN ds : ~IsDigit(ds[i])
       THEN [ok |-> FALSE, n |-> 0]
       ELSE [ok |-> TRUE,
             n |-> IF signed /\ Head(t) = "-" THEN 0 - DigitsValue(ds, 0)
                   ELSE DigitsValue(ds, 0)]

\* ------------------------------------------------------------- wave module
LE16(n) == <<n % 256, (n \div 256) % 256>>

LE32(n) == <<n % 256, (n \div 256) % 256, (n \div 65536) % 256, (n \div 16777216) % 256>>

\* Wave_write._write_header: RIFF size, WAVE, fmt chunk (format 1 = PCM), data size
WavHeader(nchannels, sampwidth, framerate, datalength) ==
    <<82, 73, 70, 70>> \o LE32(36 + datalength) \o <<87, 65, 86, 69>>
        \o <<102, 109, 116, 32>> \o LE32(16) \o LE16(1)
        \o LE16(nchannels) \o LE32(framerate)
        \o LE32(nchannels * framerate * sampwidth)
        \o LE16(nchannels * sampwidth) \o LE16(sampwidth * 8)
        \o <<100, 97, 116, 97>> \o LE32(datalength)

\* lines 81-89: setnchannels(1), setsampwidth(2), setframerate, writeframes, read
\* (sample rates stay far below 2^31, where the header fields would overflow)
WavBytes(pcm, sample_rate) ==
    IF sample_rate <= 0 THEN [ok |-> FALSE, exc |-> "wave.Error", bytes |-> <<>>]
    ELSE [ok |-> TRUE, exc |-> "none",
          bytes |-> WavHeader(1, 2, sample_rate, Len(pcm)) \o pcm]

\* ------------------------------------------------------ prompt (189-194)
INTRO == "Create a story for the following details:"

\* variant: the tips line is left out for blank tips as well
AssemblePrompt_blank(characters, genre, age_group, tips) ==
    <<INTRO, NL, NL>>
        \o <<"Characters: ">> \o characters \o <<NL>>
        \o <<"Genre: ", genre, NL>>
        \o <<"Age Group: ", age_group, NL>>
        \o (IF Strip(tips) # <<>> THEN <<"Additional Tips: ">> \o tips \o <<NL>> ELSE <<>>)

AssemblePrompt(characters, genre, age_group, tips) ==
    <<INTRO, NL, NL>>
        \o <<"Characters: ">> \o characters \o <<NL>>
        \o <<"Genre: ", genre, NL>>
        \o <<"Age Group: ", age_group, NL>>
        \o (IF tips # <<>> THEN <<"Additional Tips: ">> \o tips \o <<NL>> ELSE <<>>)

\* ------------------------------------------------------------ the clients
SYSTEM_PROMPT ==
    "You are a gentle and soothing storyteller, specializing in creating calming and imaginative bedtime stories for children. The stories should be a few paragraphs long and have a happy, reassuring ending."

VOICE_NAME == "Puck"

\* one requests.post(url, json = payload); the key travels in the url
Post(model, api_key, payload) == [model |-> model, key |-> api_key, payload |-> payload]

GeneratePayload(prompt) == [text |-> prompt, systemInstruction |-> SYSTEM_PROMPT]

TtsPayload(text) ==
    [text |-> text, responseModalities |-> <<"AUDIO">>, voiceName |-> VOICE_NAME]

\* what a call of a client leaves behind
NoCall == [kind |-> "none", value |-> <<>>, exc |-> "none", errors |-> {}, log |-> <<>>]

Returned(value, log) == [NoCall EXCEPT !.kind = "return", !.value = value, !.log = log]

\* an except clause ran: st.error(message), return None
Caught(exc, message, log) ==
    [NoCall EXCEPT !.kind = "return_none", !.exc = exc, !.errors = {message}, !.log = log]

\* no except clause matched: the exception leaves the function
Escaped(exc, log) == [NoCall EXCEPT !.kind = "raise", !.exc = exc, !.log = log]

\* Python's truth value of what a client returned
Truthy(r) == r.kind = "return" /\ r.value # <<>>

\* the classes under requests.exceptions.RequestException
RequestExceptions == {"ConnectionError", "HTTPError"}

\* Response.raise_for_status raises HTTPError for 400 <= status_code < 600
HttpError(status) == 400 <= status /\ status < 600

\* the attributes of a requests.Response the clients could name
ResponseAttributes == {"raise_for_status", "json", "status_code", "text", "content", "ok"}

StoryPath == <<"candidates", "[0]", "content", "parts", "[0]", "text">>

\* lines 38-42: the try block; what it raises, or the text it extracts
GenerateTry(resp, story) ==
    IF resp.net = "error" THEN [exc |-> "ConnectionError", value |-> <<>>]
    ELSE IF HttpError(resp.status) THEN [exc |-> "HTTPError", value |-> <<>>]
    ELSE IF ~story.ok THEN [exc |-> story.exc, value |-> <<>>]
    ELSE [exc |-> "none", value |-> story.v.s]

\* lines 43-45: the except clause of generate_story
GenerateExcept(r, log) ==
    IF r.exc = "none" THEN Returned(r.value, log)
    ELSE IF r.exc \in RequestExceptions THEN Caught(r.exc, "error_generating_story", log)
    ELSE Escaped(r.exc, log)

\* lines 25-45, one attempt
GenerateOnce(prompt, api_key, resp) ==
    GenerateExcept(GenerateTry(resp, Path(resp.body, StoryPath)),
                   <<Post(TEXT_GENERATION_MODEL, api_key, GeneratePayload(prompt))>>)

\* variant: a failed attempt is repeated once
RetryLog(r) == IF r.kind = "return" THEN r ELSE [r EXCEPT !.log = r.log \o r.log]

generate_story_retry(prompt, api_key, resp) == RetryLog(GenerateOnce(prompt, api_key, resp))

generate_story(prompt, api_key, resp) == GenerateOnce(prompt, api_key, resp)

InlinePath == <<"candidates", "[0]", "content", "parts", "[0]", "inlineData">>

Raise(exc) == [exc |-> exc, value |-> <<>>]

\* lines 81-89
TtsWav(wav) == [exc |-> wav.exc, value |-> wav.bytes]

\* line 78
TtsRate(pcm, rate) ==
    IF ~rate.ok THEN Raise("ValueError") ELSE TtsWav(WavBytes(pcm, rate.n))

\* lines 74-77
TtsDecode(pcm, rate_str) ==
    IF ~pcm.ok THEN Raise("binascii.Error")
    ELSE IF ~rate_str.ok THEN Raise("IndexError")
    ELSE TtsRate(pcm.bytes, ParseInt(rate_str.s))

\* lines 70-71
TtsFields(data, mime) ==
    IF ~data.ok THEN Raise(data.exc)
    ELSE IF ~mime.ok THEN Raise(mime.exc)
    ELSE IF data.v.t # "str" \/ mime.v.t # "str" THEN Raise("TypeError")
    ELSE TtsDecode(b64decode(data.v.s), SplitSecond(mime.v.s, RateEq))

\* lines 66-89: the try block; response.raise_s_status is looked up on the answer
TtsTry(resp) ==
    IF resp.net = "error" THEN Raise("ConnectionError")
    ELSE IF "raise_s_status" \notin ResponseAttributes THEN Raise("AttributeError")
    ELSE TtsFields(Path(resp.body, InlinePath \o <<"data">>),
                   Path(resp.body, InlinePath \o <<"mimeType">>))

\* lines 91-96: the except clauses of text_to_speech
TtsExcept(r, log) ==
    IF r.exc = "none" THEN Returned(r.value, log)
    ELSE IF r.exc \in RequestExceptions THEN Caught(r.exc, "error_generating_audio", log)
    ELSE IF r.exc \in {"KeyError", "IndexError"}
    THEN Caught(r.exc, "error_unexpected_structure", log)
    ELSE Escaped(r.exc, log)

\* lines 48-96
text_to_speech(text, api_key, resp) ==
    TtsExcept(TtsTry(resp), <<Post(TTS_MODEL, api_key, TtsPayload(text))>>)

\* -------------------------------------------------------- the page script
\* variant: the parameter is copied but not cleared
ConsumeVoiceInput_keep(ss, qp) ==
    IF qp.voice_input # Absent /\ qp.voice_input # <<>>
    THEN [ss |-> [ss EXCEPT !.voice_text = qp.voice_input], qp |-> qp]
    ELSE [ss |-> ss, qp |-> qp]

\* lines 159-162: a truthy voice_input parameter moves into the session
ConsumeVoiceInput(ss, qp) ==
    IF qp.voice_input # Absent /\ qp.voice_input # <<>>
    THEN [ss |-> [ss EXCEPT !.voice_text = qp.voice_input],
          qp |-> [voice_input |-> Absent]]
    ELSE [ss |-> ss, qp |-> qp]

\* lines 104-105
voice_input(ss) ==
    IF ss.voice_text = Absent THEN [ss EXCEPT !.voice_text = <<>>] ELSE ss

\* lines 182-197: the "Generate Story" branch up to the client's answer
GenerateHandler(w, generate_button, resp) ==
    IF ~generate_button THEN NoCall
    ELSE IF w.api_key = <<>> THEN [NoCall EXCEPT !.errors = {"error_api_key"}]
    ELSE IF w.characters = <<>> THEN [NoCall EXCEPT !.errors = {"error_characters"}]
    ELSE generate_story(AssemblePrompt(w.characters, w.genre, w.age_group, w.tips),
                        w.api_key, resp)

\* variant: the result is stored without the truth test
StoreStory_unguarded(ss, story) == [ss EXCEPT !.story_text = story.value]

\* lines 198-199
StoreStory(ss, story) ==
    IF Truthy(story) THEN [ss EXCEPT !.story_text = story.value] ELSE ss

\* variant: the story section is rendered whatever the session holds
StorySectionShown_always(ss) == TRUE

\* line 201
StorySectionShown(ss) == ss.story_text # Absent

\* lines 208-210: the "Tell Me the Story" button, when it is rendered
SpeakHandler(ss, w, speak_button, resp) ==
    IF StorySectionShown(ss) /\ speak_button
    THEN text_to_speech(ss.story_text, w.api_key, resp)
    ELSE NoCall

\* the text a 2xx answer carries, when it carries a non-empty one
StoryOf(resp, story) ==
    IF resp.net = "ok" /\ resp.status \in 200..299 /\ story.ok /\ story.v.t = "str"
          /\ story.v.s # <<>>
    THEN story.v.s
    ELSE Absent

GeneratedText(resp) == StoryOf(resp, Path(resp.body, StoryPath))

\* history of the texts generation calls returned
Remember(g, text) == IF g.log # <<>> /\ text # Absent THEN text ELSE last_generated

\* the end of a run: what it leaves in the session and on the page
Finish(w, ev, resp, qp, ss, g, s) ==
    /\ widgets' = w
    /\ session_state' = ss
    /\ query_params' = qp
    /\ event' = ev
    /\ http_log' = g.log \o s.log
    /\ response' = IF g.log \o s.log = <<>> THEN NoResponse ELSE resp
    /\ errors' = (IF w.api_key = <<>> THEN {"warning_api_key"} ELSE {})
                    \cup g.errors \cup s.errors
    /\ fault' = IF g.kind = "raise" THEN g.exc
                ELSE IF s.kind = "raise" THEN s.exc ELSE "none"
    /\ audio' = IF Truthy(s) THEN s.value ELSE <<>>
    /\ speak_shown' = (g.kind # "raise" /\ StorySectionShown(ss))
    /\ last_generated' = Remember(g, GeneratedText(resp))

\* lines 201-212, skipped when generate_story let an exception escape
StorySection(w, ev, resp, qp, ss, g, speak_button) ==
    Finish(w, ev, resp, qp, ss, g,
           IF g.kind = "raise" THEN NoCall ELSE SpeakHandler(ss, w, speak_button, resp))

\* lines 182-199
GenerateSection(w, ev, resp, qp, ss, g, speak_button) ==
    StorySection(w, ev, resp, qp, IF g.kind = "raise" THEN ss ELSE StoreStory(ss, g),
                 g, speak_button)

\* lines 150-179: the sidebar
Sidebar(w, generate_button, speak_button, resp, ev, v) ==
    GenerateSection(w, ev, resp, v.qp, voice_input(v.ss),
                    GenerateHandler(w, generate_button, resp), speak_button)

\* one execution of the script, lines 146-214, with widget values w
PageRun(w, generate_button, speak_button, resp, ev) ==
    Sidebar(w, generate_button, speak_button, resp, ev,
            ConsumeVoiceInput(session_state, query_params))

\* ----------------------------------------------------------------- actions
Init ==
    /\ widgets = [api_key |-> <<>>, characters |-> <<>>, genre |-> "Fantasy",
                  age_group |-> "Toddlers (1-3 years)", tips |-> <<>>]
    /\ session_state = [voice_text |-> Absent, story_text |-> Absent]
    /\ query_params = [voice_input |-> Absent]
    /\ event = "init"
    /\ response = NoResponse
    /\ http_log = <<>>
    /\ errors = {}
    /\ fault = "none"
    /\ audio = <<>>
    /\ speak_shown = FALSE
    /\ last_generated = Absent

\* page load or any other rerun without a changed widget
Rerun == PageRun(widgets, FALSE, FALSE, NoResponse, "rerun")

EditApiKey ==
    \E k \in ApiKeys \ {widgets.api_key} :
        PageRun([widgets EXCEPT !.api_key = k], FALSE, FALSE, NoResponse, "edit")

EditCharacters ==
    \E c \in CharactersInputs \ {widgets.characters} :
        PageRun([widgets EXCEPT !.characters = c], FALSE, FALSE, NoResponse, "edit")

SelectGenre ==
    \E x \in Genres \ {widgets.genre} :
        PageRun([widgets EXCEPT !.genre = x], FALSE, FALSE, NoResponse, "edit")

SelectAgeGroup ==
    \E x \in AgeGroups \ {widgets.age_group} :
        PageRun([widgets EXCEPT !.age_group = x], FALSE, FALSE, NoResponse, "edit")

EditTips ==
    \E t \in TipsInputs \ {widgets.tips} :
        PageRun([widgets EXCEPT !.tips = t], FALSE, FALSE, NoResponse, "edit")

ClickGenerate ==
    \E i \in DOMAIN GenerationResponses :
        PageRun(widgets, TRUE, FALSE, GenerationResponses[i], "generate")

\* the button can be clicked once a run has rendered it
ClickSpeak ==
    /\ speak_shown
    /\ \E i \in DOMAIN SynthesisResponses :
           PageRun(widgets, FALSE, TRUE, SynthesisResponses[i], "speak")

\* lines 122-127: recognition.onresult puts the transcript into the page's URL;
\* the voice button (line 171) is there once the script has run
OnResult ==
    /\ event # "init"
    /\ \E t \in Transcripts :
           /\ query_params' = [voice_input |-> t]
           /\ event' = "onresult"
    /\ UNCHANGED <<widgets, session_state, response, http_log, errors, fault, audio,
                   speak_shown, last_generated>>

\* the session: key, characters, both buttons and the voice channel
Next ==
    \/ Rerun
    \/ EditApiKey
    \/ EditCharacters
    \/ ClickGenerate
    \/ ClickSpeak
    \/ OnResult

Spec == Init /\ [][Next]_vars

\* the form: every field of the sidebar and the "Generate Story" button
FormNext ==
    \/ EditApiKey
    \/ EditCharacters
    \/ SelectGenre
    \/ SelectAgeGroup
    \/ EditTips
    \/ ClickGenerate

FormSpec == Init /\ [][FormNext]_vars

\* -------------------------------------------------------------- properties
ButtonRun == event \in {"generate", "speak"}

Answered2xx == response.net = "ok" /\ response.status \in 200..299

TransportFailed == response.net = "error" \/ (response.net = "ok" /\ ~Answered2xx)

PreconditionErrors == {"error_api_key", "error_characters"}

ClientErrors ==
    {"error_generating_story", "error_generating_audio", "error_unexpected_structure"}

\* C1: a "Generate Story" or "Tell Me the Story" click with an empty API key,
\* or a "Generate Story" click with empty characters, issues no HTTP request,
\* calls no client and ends with a precondition message, not a client error.
C1_InputsValidatedFirst ==
    (ButtonRun /\ (widgets.api_key = <<>>
                      \/ (event = "generate" /\ widgets.characters = <<>>)))
        => /\ http_log = <<>>
           /\ fault = "none"
           /\ errors \cap PreconditionErrors # {}
           /\ errors \cap ClientErrors = {}

\* C2: in both clients a network error or a non-2xx status is caught: the
\* client shows its error message, returns nothing, and no exception escapes.
C2_TransportCaught ==
    (ButtonRun /\ http_log # <<>> /\ TransportFailed)
        => /\ fault = "none"
           /\ audio = <<>>
           /\ event = "generate" => "error_generating_story" \in errors
           /\ event = "speak" => "error_generating_audio" \in errors

MalformedStory == ~Path(response.body, StoryPath).ok

AudioFields ==
    TtsFields(Path(response.body, InlinePath \o <<"data">>),
              Path(response.body, InlinePath \o <<"mimeType">>))

MalformedAudio == AudioFields.exc \in {"KeyError", "IndexError", "TypeError", "ValueError"}

\* C3: in both clients a 2xx answer whose JSON lacks the expected shape (a key
\* absent, an index out of bounds, no "rate=" or no integer after it) is caught
\* and reported as a malformed response.
C3_MalformedCaught ==
    (ButtonRun /\ http_log # <<>> /\ Answered2xx
        /\ IF event = "generate" THEN MalformedStory ELSE MalformedAudio)
        => /\ fault = "none"
           /\ errors \cap ClientErrors # {}

\* C4: whatever the service answers, no exception escapes generate_story or
\* text_to_speech to the page script.
C4_NoUnhandledFault == fault = "none"

AudioPcm == b64decode(Path(response.body, InlinePath \o <<"data">>).v.s).bytes

AudioRate ==
    ParseInt(SplitSecond(Path(response.body, InlinePath \o <<"mimeType">>).v.s, RateEq).s).n

\* C5: a 2xx synthesis answer with a well-formed body is played: mono, 16 bit,
\* the parsed sample rate, a 44 byte header followed by the decoded PCM bytes.
C5_WellFormedAudioPlays ==
    (event = "speak" /\ http_log # <<>> /\ Answered2xx /\ AudioFields.exc = "none")
        => /\ fault = "none"
           /\ Len(audio) = 44 + Len(AudioPcm)
           /\ SubSeq(audio, 45, Len(audio)) = AudioPcm
           /\ SubSeq(audio, 23, 24) = LE16(1)
           /\ SubSeq(audio, 25, 28) = LE32(AudioRate)
           /\ SubSeq(audio, 35, 36) = LE16(16)

\* C6: story_text changes only in a "Generate Story" run whose call returned a
\* non-empty text, and then it becomes exactly that text; every other step
\* (failed generation, any "Tell Me the Story" run) leaves it as it was.
C6_StoryTextFrame ==
    [][ session_state'.story_text # session_state.story_text
          => /\ event' = "generate"
             /\ fault' = "none"
             /\ GeneratedText(response') # Absent
             /\ session_state'.story_text = GeneratedText(response') ]_vars

C6_Witness ==
    /\ event = "generate"
    /\ errors \cap ClientErrors # {}
    /\ session_state.story_text = <<"x">>

\* the lines of a text, each ended by a newline
RECURSIVE SplitLines(_, _)
SplitLines(p, cur) ==
    IF p = <<>> THEN (IF cur = <<>> THEN <<>> ELSE <<cur>>)
    ELSE IF Head(p) = NL THEN <<cur>> \o SplitLines(Tail(p), <<>>)
    ELSE SplitLines(Tail(p), Append(cur, Head(p)))

PromptSent == event = "generate" /\ http_log # <<>>

Prompt == http_log[1].payload.text

\* intro, blank line, Characters, Genre, Age Group, each on a line of its own
PromptHead(ls) ==
    /\ Len(ls) >= 5
    /\ ls[1] = <<INTRO>>
    /\ ls[2] = <<>>
    /\ ls[3] = <<"Characters: ">> \o widgets.characters
    /\ ls[4] = <<"Genre: ", widgets.genre>>
    /\ ls[5] = <<"Age Group: ", widgets.age_group>>

\* what follows the Age Group line
PromptRest == SubSeq(Prompt, 12 + Len(widgets.characters), Len(Prompt))

TipsLine(present) ==
    IF present THEN PromptRest = <<"Additional Tips: ">> \o widgets.tips \o <<NL>>
    ELSE PromptRest = <<>> /\ Len(SplitLines(Prompt, <<>>)) = 5

\* C7 as stated: the prompt is the intro and the three field lines in order,
\* with an "Additional Tips" line iff tips is non-empty and non-whitespace.
C7_TipsIffNonBlank ==
    PromptSent => PromptHead(SplitLines(Prompt, <<>>)) /\ TipsLine(Strip(widgets.tips) # <<>>)

\* C7 amended: the prompt is the intro and the three field lines in order,
\* with an "Additional Tips" line iff tips is non-empty; whitespace-only tips
\* get their line too.
C7_TipsIffNonEmpty ==
    PromptSent => PromptHead(SplitLines(Prompt, <<>>)) /\ TipsLine(widgets.tips # <<>>)

C7_Witness == PromptSent /\ widgets.tips = <<" ">> /\ PromptRest # <<>>

\* C8 as stated: after any run of the script the voice_input parameter is gone.
C8_ParamGoneAfterRun ==
    event \notin {"init", "onresult"} => query_params.voice_input = Absent

\* C8 amended: a run that finds a non-empty voice_input parameter copies it to
\* voice_text and clears the parameter; a run that finds none, or an empty
\* one, takes nothing into voice_text and leaves the parameters alone.
C8_ConsumedOnce ==
    [][ event' # "onresult"
          => IF query_params.voice_input \notin {Absent, <<>>}
             THEN /\ session_state'.voice_text = query_params.voice_input
                  /\ query_params'.voice_input = Absent
             ELSE /\ query_params' = query_params
                  /\ session_state'.voice_text =
                        IF session_state.voice_text = Absent THEN <<>>
                        ELSE session_state.voice_text ]_vars

C8_Witness ==
    /\ event \notin {"init", "onresult"}
    /\ session_state.voice_text = <<"t">>
    /\ query_params.voice_input = Absent

\* C9: a run issues at most one HTTP request, and a run no button click
\* started issues none: nothing is retried.
C9_SingleAttempt ==
    /\ Len(http_log) <= 1
    /\ event \in {"init", "rerun", "edit"} => http_log = <<>>

C9_Witness ==
    /\ ButtonRun
    /\ Len(http_log) = 1
    /\ TransportFailed

\* C10: story_text, when present, is the non-empty text the latest generation
\* returned; a synthesis request is issued only while story_text is present
\* and carries exactly it.
C10_StoryTextCurrent ==
    /\ session_state.story_text = last_generated
    /\ session_state.story_text # <<>>
    /\ \A i \in DOMAIN http_log :
           http_log[i].model = TTS_MODEL
               => /\ session_state.story_text # Absent
                  /\ http_log[i].payload.text = session_state.story_text

C10_Witness ==
    /\ event = "speak"
    /\ http_log # <<>>
    /\ http_log[1].model = TTS_MODEL
    /\ http_log[1].payload.text = <<"y">>
====
